---- MODULE Spec2Model ----
(***************************************************************************)
(* EcoFly: the live-traffic normalizer (openskyService.fetchLiveFlights),  *)
(* the Query Layer and polling loop of LiveFlightsDisplay, and the         *)
(* calculator state of App.                                                *)
(*                                                                         *)
(* Representation of JavaScript values:                                    *)
(*   - a string is a tuple of one-character strings, <<"A", "b">>;         *)
(*   - a nullable value (number | null, string | null) is NULL == <<>> or  *)
(*     the one-element tuple <<v>>;                                        *)
(*   - a raw state vector is a function over the indices the code reads.   *)
(***************************************************************************)
EXTENDS Integers, Sequences, FiniteSets, TLC

VARIABLES
    response,     \* normalizer: what the transport delivers to one fetchLiveFlights call
    result,       \* normalizer: how the promise of that call settled
    engine,       \* the JavaScript engine the page runs on (its Array.prototype.sort)
    flights,      \* LiveFlightsDisplay: the FlightSet
    filterQuery,  \* LiveFlightsDisplay: the filter input
    sortConfig,   \* LiveFlightsDisplay: {key, direction}
    view,         \* LiveFlightsDisplay: processedFlights, the memoized derived view
    isLoading,    \* LiveFlightsDisplay: the loading flag
    lastUpdated,  \* LiveFlightsDisplay: the time of the last update, "" before the first
    mounted,      \* LiveFlightsDisplay: the component is mounted
    timer,        \* LiveFlightsDisplay: the interval of the effect: unset, active, cleared
    now,          \* the wall clock, in periods of the interval
    calls,        \* the calls of getFlightData: status, response, and a log of
                  \* what each wrote and which calls were pending beside it
    inputs,            \* AutocompleteInput, per side: query and suggestions
    fromAirport,       \* App: the selected departure airport, or null
    toAirport,         \* App: the selected arrival airport, or null
    distance,          \* App: the calculated distance, or null
    emissions,         \* App: the calculated emissions, or null
    ecoPlan,           \* App: the eco-plan text, '' when there is none
    isGeneratingPlan,  \* App: an eco-plan request is under way
    error,             \* App: the error message, '' when there is none
    planCall           \* the pending call of generateEcoPlan and its arguments

normVars == <<response, result>>

queryVars == <<engine, flights, filterQuery, sortConfig, view>>

liveVars == <<isLoading, lastUpdated, mounted, timer, now, calls>>

appVars ==
    <<inputs, fromAirport, toAirport, distance, emissions, ecoPlan, isGeneratingPlan,
      error, planCall>>

vars == <<normVars, queryVars, liveVars, appVars>>

----------------------------------------------------------------------------
(* Bounds *)

\* the longest `states` collection of a response
MaxVectors == 3

\* the largest FlightSet handed to the Query Layer
MaxFlights == 4

\* the number of getFlightData calls of one LiveFlightsDisplay
MaxCalls == 3

\* the steps of latitude and of longitude on either side of 0 the
\* coordinates handed to calculateDistance are taken from
GridSteps == 3

\* the number of distances, after 0, handed to calculateEmissions
MaxSamples == 12510

----------------------------------------------------------------------------
(* JavaScript values *)

NULL == <<>>

Some(v) == <<v>>

\* the value inside a non-null nullable
Val(n) == n[1]

\* String.prototype.trim removes these from both ends
WhiteSpace == {" ", "\t"}

\* UTF-16 code unit of each character of the model's alphabet
CharCode(c) ==
    CASE c = "\t" -> 9
      [] c = " " -> 32
      [] c = "/" -> 47
      [] c = "1" -> 49
      [] c = "2" -> 50
      [] c = "A" -> 65
      [] c = "B" -> 66
      [] c = "I" -> 73
      [] c = "N" -> 78
      [] c = "a" -> 97
      [] c = "b" -> 98
      [] c = "i" -> 105
      [] c = "n" -> 110

UpperCase == <<"A", "B", "C", "D", "E", "F", "G", "H", "I", "J", "K", "L", "M", "N", "O", "P", "Q", "R", "S", "T", "U", "V", "W", "X", "Y", "Z">>

LowerCase == <<"a", "b", "c", "d", "e", "f", "g", "h", "i", "j", "k", "l", "m", "n", "o", "p", "q", "r", "s", "t", "u", "v", "w", "x", "y", "z">>

\* String.prototype.toLowerCase, one character
LowerChar(c) ==
    IF \E i \in 1..Len(UpperCase) : UpperCase[i] = c
    THEN LowerCase[CHOOSE i \in 1..Len(UpperCase) : UpperCase[i] = c]
    ELSE c

toLowerCase(s) == [i \in 1..Len(s) |-> LowerChar(s[i])]

RECURSIVE trimStart(_)
trimStart(s) ==
    IF s # <<>> /\ Head(s) \in WhiteSpace THEN trimStart(Tail(s)) ELSE s

RECURSIVE trimEnd(_)
trimEnd(s) ==
    IF s # <<>> /\ s[Len(s)] \in WhiteSpace
    THEN trimEnd(SubSeq(s, 1, Len(s) - 1))
    ELSE s

trim(s) == trimEnd(trimStart(s))

----------------------------------------------------------------------------
(* openskyService: fetchLiveFlights *)

\* the indices of a FlightStateVector that fetchLiveFlights reads
VectorIdx == {0, 1, 2, 5, 6, 7, 9, 10}

Vector(icao24, callsign, country, lon, lat, alt, vel, track) ==
    (0 :> icao24) @@ (1 :> callsign) @@ (2 :> country) @@ (5 :> lon) @@
    (6 :> lat) @@ (7 :> alt) @@ (9 :> vel) @@ (10 :> track)

\* the fixed placeholder callsign
NA == <<"N", "/", "A">>

\* state[1]?.trim() || 'N/A'
CallsignTrimOnlyStart(raw) ==
    IF raw = NULL THEN NA
    ELSE IF trimStart(Val(raw)) = <<>> THEN NA ELSE trimStart(Val(raw))

CleanCallsign(raw) ==
    IF raw = NULL THEN NA
    ELSE IF trim(Val(raw)) = <<>> THEN NA ELSE trim(Val(raw))

\* state[5] != null && state[6] != null
HasPositionLonOnly(state) == state[5] # NULL

HasPosition(state) == state[5] # NULL /\ state[6] # NULL

toFlightState(state) ==
    [ icao24         |-> state[0],
      callsign       |-> CleanCallsign(state[1]),
      origin_country |-> state[2],
      longitude      |-> state[5],
      latitude       |-> state[6],
      baro_altitude  |-> state[7],
      velocity       |-> state[9],
      true_track     |-> state[10] ]

\* states.filter(...).map(...)
Normalize(states) ==
    LET kept == SelectSeq(states, HasPosition)
    IN  [i \in 1..Len(kept) |-> toFlightState(kept[i])]

\* what the transport can deliver: fetch rejects; a non-success status; a body
\* json() cannot parse; the JSON value null; an object without `states`; an
\* object whose `states` is no array; a `states` array holding a value that
\* cannot be indexed; an object with a `states` array of vectors
ResponseKinds ==
    { "network_error", "http_error", "malformed_json", "json_null",
      "states_absent", "states_not_array", "vector_not_array", "ok" }

FailureKinds == ResponseKinds \ {"ok", "states_absent"}

Response(kind, states) == [kind |-> kind, states |-> states]

\* the try block: either it throws or it returns the normalized array
TryBlock(resp) ==
    CASE resp.kind = "network_error"    -> [thrown |-> TRUE, value |-> <<>>]
      [] resp.kind = "http_error"       -> [thrown |-> TRUE, value |-> <<>>]
      [] resp.kind = "malformed_json"   -> [thrown |-> TRUE, value |-> <<>>]
      [] resp.kind = "json_null"        -> [thrown |-> TRUE, value |-> <<>>]
      [] resp.kind = "states_not_array" -> [thrown |-> TRUE, value |-> <<>>]
      [] resp.kind = "vector_not_array" -> [thrown |-> TRUE, value |-> <<>>]
      [] resp.kind = "states_absent"    -> [thrown |-> FALSE, value |-> Normalize(<<>>)]
      [] resp.kind = "ok"               -> [thrown |-> FALSE, value |-> Normalize(resp.states)]

\* how the promise returned by fetchLiveFlights settles
fetchLiveFlightsNoCatch(resp) ==
    LET t == TryBlock(resp)
    IN  IF t.thrown
        THEN [settled |-> "rejected", value |-> <<>>]
        ELSE [settled |-> "resolved", value |-> t.value]

fetchLiveFlights(resp) ==
    LET t == TryBlock(resp)
    IN  IF t.thrown
        THEN [settled |-> "resolved", value |-> <<>>]
        ELSE [settled |-> "resolved", value |-> t.value]

\* the request is issued and the transport has not answered yet
NoResponse == Response("none", <<>>)

\* the promise returned by fetchLiveFlights has not settled yet
NoResult == [settled |-> "pending", value |-> <<>>]

\* no call of the normalizer is under way
NormIdle ==
    /\ response = NoResponse
    /\ result = NoResult

----------------------------------------------------------------------------
(* LiveFlightsDisplay: the Query Layer (processedFlights, requestSort) *)

\* type SortableKey
SortableKeys == {"callsign", "origin_country", "velocity", "baro_altitude"}

\* the sortable keys of type number | null; the other two are strings
NumericKeys == {"velocity", "baro_altitude"}

\* sortConfig.key === null
NoKey == "none"

\* String.prototype.includes
RECURSIVE includes(_, _)
includes(s, q) ==
    IF Len(q) > Len(s) THEN FALSE
    ELSE IF SubSeq(s, 1, Len(q)) = q THEN TRUE
    ELSE includes(Tail(s), q)

\* the filter callback, lowercasedQuery being filterQuery.toLowerCase()
MatchesCaseSensitive(flight, lowercasedQuery) ==
    \/ includes(flight.callsign, lowercasedQuery)
    \/ includes(flight.origin_country, lowercasedQuery)

Matches(flight, lowercasedQuery) ==
    \/ includes(toLowerCase(flight.callsign), lowercasedQuery)
    \/ includes(toLowerCase(flight.origin_country), lowercasedQuery)

\* valA === null
IsNullKey(flight, key) == key \in NumericKeys /\ flight[key] = NULL

\* s < t on strings: by UTF-16 code units, a proper prefix first
RECURSIVE StrLess(_, _)
StrLess(s, t) ==
    IF t = <<>> THEN FALSE
    ELSE IF s = <<>> THEN TRUE
    ELSE IF CharCode(Head(s)) # CharCode(Head(t))
         THEN CharCode(Head(s)) < CharCode(Head(t))
         ELSE StrLess(Tail(s), Tail(t))

\* valA < valB, both non-null
KeyLess(a, b, key) ==
    IF key \in NumericKeys THEN Val(a[key]) < Val(b[key]) ELSE StrLess(a[key], b[key])

\* the comparator handed to sort
compareNullsFollowDirection(a, b, key, direction) ==
    IF IsNullKey(a, key) THEN (IF direction = "ascending" THEN 1 ELSE -1)
    ELSE IF IsNullKey(b, key) THEN (IF direction = "ascending" THEN -1 ELSE 1)
    ELSE IF KeyLess(a, b, key) THEN (IF direction = "ascending" THEN -1 ELSE 1)
    ELSE IF KeyLess(b, a, key) THEN (IF direction = "ascending" THEN 1 ELSE -1)
    ELSE 0

compare(a, b, key, direction) ==
    IF IsNullKey(a, key) THEN 1
    ELSE IF IsNullKey(b, key) THEN -1
    ELSE IF KeyLess(a, b, key) THEN (IF direction = "ascending" THEN -1 ELSE 1)
    ELSE IF KeyLess(b, a, key) THEN (IF direction = "ascending" THEN 1 ELSE -1)
    ELSE 0

Reverse(s) == [i \in 1..Len(s) |-> s[Len(s) + 1 - i]]

\* arr with the element at position from moved to position to (to <= from)
MoveTo(arr, from, to) ==
    SubSeq(arr, 1, to - 1) \o <<arr[from]>> \o SubSeq(arr, to, from - 1)
        \o SubSeq(arr, from + 1, Len(arr))

(* V8 (TimSort; an array shorter than 64 is one run, found by CountAndMakeRun *)
(* and completed by BinarySort). Every call is comparefn(later, earlier).     *)

\* the last position of the run that starts at 1
RECURSIVE V8RunEnd(_, _, _, _, _)
V8RunEnd(arr, idx, isDescending, key, direction) ==
    IF idx > Len(arr) THEN idx - 1
    ELSE LET order == compare(arr[idx], arr[idx - 1], key, direction)
         IN  IF (isDescending /\ order >= 0) \/ (~isDescending /\ order < 0)
             THEN idx - 1
             ELSE V8RunEnd(arr, idx + 1, isDescending, key, direction)

\* the 0-based insertion point of pivot in the sorted prefix [left, right)
RECURSIVE V8BinarySearch(_, _, _, _, _, _)
V8BinarySearch(arr, pivot, left, right, key, direction) ==
    IF left >= right THEN left
    ELSE LET mid == left + ((right - left) \div 2)
         IN  IF compare(pivot, arr[mid + 1], key, direction) < 0
             THEN V8BinarySearch(arr, pivot, left, mid, key, direction)
             ELSE V8BinarySearch(arr, pivot, mid + 1, right, key, direction)

RECURSIVE V8BinarySort(_, _, _, _)
V8BinarySort(arr, start, key, direction) ==
    IF start > Len(arr) THEN arr
    ELSE LET left == V8BinarySearch(arr, arr[start], 0, start - 1, key, direction)
         IN  V8BinarySort(MoveTo(arr, start, left + 1), start + 1, key, direction)

V8Sort(arr, key, direction) ==
    IF Len(arr) < 2 THEN arr
    ELSE LET isDescending == compare(arr[2], arr[1], key, direction) < 0
             runLength == V8RunEnd(arr, 3, isDescending, key, direction)
             run == IF isDescending
                    THEN Reverse(SubSeq(arr, 1, runLength)) \o SubSeq(arr, runLength + 1, Len(arr))
                    ELSE arr
         IN  V8BinarySort(run, runLength + 1, key, direction)

(* SpiderMonkey (MergeSort; an array shorter than 24 goes to InsertionSort). *)
(* Every call is comparefn(earlier, later).                                  *)

\* the position after which item is inserted, scanning down from j
RECURSIVE SMScanDown(_, _, _, _, _)
SMScanDown(arr, item, j, key, direction) ==
    IF j < 1 THEN 0
    ELSE IF compare(arr[j], item, key, direction) <= 0 THEN j
    ELSE SMScanDown(arr, item, j - 1, key, direction)

RECURSIVE SMInsertionSort(_, _, _, _)
SMInsertionSort(arr, i, key, direction) ==
    IF i > Len(arr) THEN arr
    ELSE LET j == SMScanDown(arr, arr[i], i - 1, key, direction)
         IN  SMInsertionSort(MoveTo(arr, i, j + 1), i + 1, key, direction)

SpiderMonkeySort(arr, key, direction) == SMInsertionSort(arr, 2, key, direction)

(* JavaScriptCore (bottom-up merge sort). Every call is                      *)
(* comparator(right, left), the right element going first when it is < 0.    *)

RECURSIVE JSCMerge(_, _, _, _)
JSCMerge(left, right, key, direction) ==
    IF right = <<>> THEN left
    ELSE IF left = <<>> THEN right
    ELSE IF compare(Head(right), Head(left), key, direction) < 0
         THEN <<Head(right)>> \o JSCMerge(left, Tail(right), key, direction)
         ELSE <<Head(left)>> \o JSCMerge(Tail(left), right, key, direction)

Min(a, b) == IF a <= b THEN a ELSE b

\* one pass: merge the neighbouring runs of the given width, from srcIndex on
RECURSIVE JSCPass(_, _, _, _, _)
JSCPass(src, srcIndex, width, key, direction) ==
    IF srcIndex >= Len(src) THEN <<>>
    ELSE LET leftEnd == Min(srcIndex + width, Len(src))
             rightEnd == Min(leftEnd + width, Len(src))
         IN  JSCMerge(SubSeq(src, srcIndex + 1, leftEnd),
                      SubSeq(src, leftEnd + 1, rightEnd), key, direction)
             \o JSCPass(src, srcIndex + 2 * width, width, key, direction)

RECURSIVE JSCMergeSort(_, _, _, _)
JSCMergeSort(src, width, key, direction) ==
    IF width >= Len(src) THEN src
    ELSE JSCMergeSort(JSCPass(src, 0, width, key, direction), 2 * width, key, direction)

JSCSort(arr, key, direction) == JSCMergeSort(arr, 1, key, direction)

Engines == {"V8", "SpiderMonkey", "JavaScriptCore"}

\* Array.prototype.sort with the comparator of processedFlights
sort(arr, key, direction, eng) ==
    CASE eng = "V8"             -> V8Sort(arr, key, direction)
      [] eng = "SpiderMonkey"   -> SpiderMonkeySort(arr, key, direction)
      [] eng = "JavaScriptCore" -> JSCSort(arr, key, direction)

\* let processableFlights = [...flights]: a new array, not the state's own
NoCopy(fl) == [arr |-> fl, isStateArray |-> TRUE]

SpreadCopy(fl) == [arr |-> fl, isStateArray |-> FALSE]

\* the useMemo callback. `view` is the array it returns and `flights` is what
\* the state's array holds afterwards: sort works in place, so it reorders
\* the state's array if processableFlights still is that array.
processedFlights(fl, query, config, eng) ==
    LET copied == SpreadCopy(fl)
        filtered ==
            IF query # <<>>
            THEN [ arr |-> SelectSeq(copied.arr, LAMBDA f : Matches(f, toLowerCase(query))),
                   isStateArray |-> FALSE ]
            ELSE copied
        sorted ==
            IF config.key # NoKey
            THEN sort(filtered.arr, config.key, config.direction, eng)
            ELSE filtered.arr
    IN  [ view |-> sorted,
          flights |-> IF filtered.isStateArray THEN sorted ELSE fl ]

\* a requestSort that flips the direction whatever the key
nextSortConfigAlwaysFlips(config, key) ==
    [ key |-> key,
      direction |-> IF config.direction = "ascending"
                    THEN "descending" ELSE "ascending" ]

\* requestSort
nextSortConfig(config, key) ==
    [ key |-> key,
      direction |-> IF config.key = key /\ config.direction = "ascending"
                    THEN "descending" ELSE "ascending" ]

\* a click on a table header
RequestSort(key) ==
    /\ mounted
    /\ flights # <<>>
    /\ sortConfig' = nextSortConfig(sortConfig, key)
    /\ LET r == processedFlights(flights, filterQuery, sortConfig', engine)
       IN  /\ view' = r.view
           /\ flights' = r.flights
    /\ UNCHANGED <<engine, filterQuery, normVars, liveVars, appVars>>

\* the text the user can have in the filter input
Queries == { <<>>, <<"A", "B">>, <<"n">>, <<"i", "N">> }

\* onChange of the filter input
SetFilterQuery(q) ==
    /\ mounted
    /\ q # filterQuery
    /\ filterQuery' = q
    /\ LET r == processedFlights(flights, q, sortConfig, engine)
       IN  /\ view' = r.view
           /\ flights' = r.flights
    /\ UNCHANGED <<engine, sortConfig, normVars, liveVars, appVars>>

\* the state of a LiveFlightsDisplay that has not polled yet
QueryIdle ==
    /\ flights = <<>>
    /\ filterQuery = <<>>
    /\ sortConfig = [key |-> NoKey, direction |-> "ascending"]
    /\ view = <<>>

\* FlightStates as the normalizer produces them: callsigns and countries that
\* differ in case only, null and equal velocities and altitudes
QueryVectorList ==
    << Vector(<<"a", "1">>, Some(<<"A", "b">>), <<"N", "a">>, Some(85), Some(27), NULL, Some(5), NULL),
       Vector(<<"a", "2">>, Some(<<"a", "B">>), <<"I", "n">>, Some(84), Some(28), Some(100), NULL, NULL),
       Vector(<<"b", "1">>, NULL, <<"I", "n">>, Some(83), Some(28), NULL, NULL, Some(90)),
       Vector(<<"b", "2">>, Some(<<"B", "1">>), <<"N", "a">>, Some(0), Some(27), Some(100), Some(5), NULL),
       Vector(<<"i", "1">>, Some(<<" ", "A", "1">>), <<"i", "N">>, Some(86), Some(29), Some(200), Some(3), NULL) >>

QueryVectors == { QueryVectorList[i] : i \in 1..Len(QueryVectorList) }

QueryFlights == { toFlightState(v) : v \in QueryVectors }

----------------------------------------------------------------------------
(* LiveFlightsDisplay: getFlightData and the polling effect *)

\* the state variables of LiveFlightsDisplay that getFlightData sets
NoWrites == {}

UnusedCall ==
    [ status |-> "unused", response |-> NoResponse, settleSeq |-> 0,
      wrote |-> NoWrites, beside |-> {} ]

CallIds == 1..MaxCalls

Pending == { id \in CallIds : calls[id].status = "pending" }

Settled == { id \in CallIds : calls[id].status = "settled" }

\* the state of a LiveFlightsDisplay after its first render, the effect not yet run
LiveIdle ==
    /\ isLoading = TRUE
    /\ lastUpdated = 0
    /\ mounted = TRUE
    /\ timer = "unset"
    /\ now = 1
    /\ calls = [id \in CallIds |-> UnusedCall]

\* setFlights(flightData)
setFlightsAppend(prev, flightData) == prev \o flightData

setFlights(prev, flightData) == flightData

\* getFlightData up to its await: setIsLoading(true) and the request
StartCall ==
    LET id == Cardinality(CallIds \ { i \in CallIds : calls[i].status = "unused" }) + 1
    IN  /\ id \in CallIds
        /\ isLoading' = TRUE
        /\ calls' = [ i \in CallIds |->
                        IF i = id
                        THEN [ UnusedCall EXCEPT !.status = "pending",
                                                 !.wrote = {"isLoading"},
                                                 !.beside = Pending ]
                        ELSE IF i \in Pending
                        THEN [ calls[i] EXCEPT !.beside = @ \cup {id} ]
                        ELSE calls[i] ]

\* the effect runs after the first render: the initial fetch and setInterval
MountEffect ==
    /\ mounted
    /\ timer = "unset"
    /\ StartCall
    /\ timer' = "active"
    /\ UNCHANGED <<normVars, queryVars, lastUpdated, mounted, now, appVars>>

\* the interval fires, one period later
TimerTick ==
    /\ timer = "active"
    /\ StartCall
    /\ now' = now + 1
    /\ UNCHANGED <<normVars, queryVars, lastUpdated, mounted, timer, appVars>>

\* a click on 'Refresh Now', which is disabled while isLoading
RefreshNow ==
    /\ mounted
    /\ ~isLoading
    /\ StartCall
    /\ UNCHANGED <<normVars, queryVars, lastUpdated, mounted, timer, now, appVars>>

\* the transport answers call id with resp, fetchLiveFlights settles and
\* getFlightData runs on: setFlights, setLastUpdated, setIsLoading(false);
\* the view is derived again from the new flights. The setters of an
\* unmounted component do nothing.
SettleCall(id, resp) ==
    /\ id \in Pending
    /\ LET flightData == fetchLiveFlights(resp)
           ran == mounted /\ flightData.settled = "resolved"
           r == processedFlights(setFlights(flights, flightData.value),
                                 filterQuery, sortConfig, engine)
       IN  /\ calls' = [ calls EXCEPT
                           ![id].status = "settled",
                           ![id].response = resp,
                           ![id].settleSeq = Cardinality(Settled) + 1,
                           ![id].wrote = IF ran
                                         THEN @ \cup {"flights", "lastUpdated", "isLoading"}
                                         ELSE @ ]
           /\ flights' = IF ran THEN r.flights ELSE flights
           /\ view' = IF ran THEN r.view ELSE view
           /\ lastUpdated' = IF ran THEN now ELSE lastUpdated
           /\ isLoading' = IF ran THEN FALSE ELSE isLoading
    /\ UNCHANGED <<normVars, engine, filterQuery, sortConfig, mounted, timer, now, appVars>>

\* a cleanup that leaves the interval running
UnmountKeepsTimer ==
    /\ mounted
    /\ timer = "active"
    /\ mounted' = FALSE
    /\ UNCHANGED <<normVars, queryVars, isLoading, lastUpdated, timer, now, calls, appVars>>

\* the cleanup of the effect: clearInterval
Unmount ==
    /\ mounted
    /\ timer = "active"
    /\ mounted' = FALSE
    /\ timer' = "cleared"
    /\ UNCHANGED <<normVars, queryVars, isLoading, lastUpdated, now, calls, appVars>>

\* what the live-traffic source answers while the page is open
LiveResponses ==
    { Response("ok", <<QueryVectorList[2], QueryVectorList[1], QueryVectorList[3]>>),
      Response("ok", <<QueryVectorList[4], [QueryVectorList[5] EXCEPT ![6] = NULL], QueryVectorList[1]>>) }

LiveQueries == { <<>>, <<"i", "N">> }

LiveSortKeys == { "velocity" }

----------------------------------------------------------------------------
(* JavaScript numbers whose rounding matters: binary64 multiplication *)

\* a binary64 number >= 0 is m * 2^e, m a 53-bit significand given by its
\* bits, the lowest first; zero has no bits
SignificandBits == 53

Zero == [ m |-> <<>>, e |-> 0 ]

\* the bits of a natural number, the lowest first
RECURSIVE NatBits(_)
NatBits(n) == IF n = 0 THEN <<>> ELSE <<n % 2>> \o NatBits(n \div 2)

\* a product is worked out on limbs of LimbBits bits
LimbBits == 12

LimbBase == 4096

\* the value of the bits from..(from + count - 1) of a, absent bits being 0
RECURSIVE LimbValue(_, _, _)
LimbValue(a, from, count) ==
    IF count = 0 THEN 0
    ELSE (IF from <= Len(a) THEN a[from] ELSE 0) + 2 * LimbValue(a, from + 1, count - 1)

Limbs(a) ==
    [ j \in 1..((Len(a) + LimbBits - 1) \div LimbBits) |->
        LimbValue(a, (j - 1) * LimbBits + 1, LimbBits) ]

\* the bits of a limb, the lowest first
RECURSIVE LimbToBits(_, _)
LimbToBits(limb, count) ==
    IF count = 0 THEN <<>> ELSE <<limb % 2>> \o LimbToBits(limb \div 2, count - 1)

\* the sum of the products A[i] * B[k + 1 - i] of column k, from i on
RECURSIVE ColumnSum(_, _, _, _)
ColumnSum(A, B, k, i) ==
    IF i > Len(A) \/ i > k THEN 0
    ELSE (IF k + 1 - i <= Len(B) THEN A[i] * B[k + 1 - i] ELSE 0) + ColumnSum(A, B, k, i + 1)

\* the bits of the product of two naturals given by their limbs, column by column
RECURSIVE MulFrom(_, _, _, _)
MulFrom(A, B, k, carry) ==
    IF k > Len(A) + Len(B) THEN <<>>
    ELSE LET s == carry + ColumnSum(A, B, k, 1)
         IN  LimbToBits(s % LimbBase, LimbBits) \o MulFrom(A, B, k + 1, s \div LimbBase)

\* the bits of the product of two naturals given by their bits
MulBits(a, b) == MulFrom(Limbs(a), Limbs(b), 1, 0)

\* the position of the highest set bit, 0 when there is none
TopBit(p) == IF \E i \in 1..Len(p) : p[i] = 1
             THEN CHOOSE i \in 1..Len(p) : p[i] = 1 /\ \A j \in (i + 1)..Len(p) : p[j] = 0
             ELSE 0

\* a significand plus one unit in its last place; carry tells that it wrapped
Increment(m) ==
    IF \A i \in 1..Len(m) : m[i] = 1
    THEN [ m |-> [ i \in 1..Len(m) |-> IF i = Len(m) THEN 1 ELSE 0 ], carry |-> 1 ]
    ELSE LET j == CHOOSE i \in 1..Len(m) : m[i] = 0 /\ \A l \in 1..(i - 1) : m[l] = 1
         IN  [ m |-> [ i \in 1..Len(m) |-> IF i < j THEN 0 ELSE IF i = j THEN 1 ELSE m[i] ],
               carry |-> 0 ]

\* the binary64 nearest to p * 2^e, ties to even, for a natural p given by
\* its bits
RoundToNearest(p, e) ==
    LET n == TopBit(p)
    IN  IF n = 0 THEN Zero
        ELSE IF n <= SignificandBits
        THEN [ m |-> [ i \in 1..(SignificandBits - n) |-> 0 ] \o SubSeq(p, 1, n),
               e |-> e - (SignificandBits - n) ]
        ELSE LET drop == n - SignificandBits
                 kept == SubSeq(p, drop + 1, n)
                 guard == p[drop]
                 sticky == \E i \in 1..(drop - 1) : p[i] = 1
                 up == guard = 1 /\ (sticky \/ kept[1] = 1)
                 inc == Increment(kept)
             IN  IF up THEN [ m |-> inc.m, e |-> e + drop + inc.carry ]
                 ELSE [ m |-> kept, e |-> e + drop ]

\* x * y on numbers
FloatMul(x, y) ==
    IF x = Zero \/ y = Zero THEN Zero
    ELSE RoundToNearest(MulBits(x.m, y.m), x.e + y.e)

\* the bits after the binary point of r / d, r < d, the highest first, and
\* after them one bit that tells whether a remainder is left
RECURSIVE FractionBits(_, _, _)
FractionBits(r, d, left) ==
    IF left = 0 THEN << IF r = 0 THEN 0 ELSE 1 >>
    ELSE <<(2 * r) \div d>> \o FractionBits((2 * r) % d, d, left - 1)

\* the bits of the quotient that are worked out after the binary point
QuotientBits == 80

Reversed(s) == [ i \in 1..Len(s) |-> s[Len(s) + 1 - i] ]

\* the number a decimal literal or a quotient n / d denotes: the binary64
\* nearest to it
FromRatio(n, d) ==
    RoundToNearest(Reversed(FractionBits(n % d, d, QuotientBits)) \o NatBits(n \div d),
                   -(QuotientBits + 1))

----------------------------------------------------------------------------
(* utils/calculator: calculateDistance, calculateEmissions                  *)
(*                                                                          *)
(* Inside calculateDistance a number is modelled in fixed point: an angle, *)
(* a sine or a cosine x is the integer x * Scale, rounded toward zero as    *)
(* IEEE rounding is symmetric about zero; degrees carry four decimals, as   *)
(* the airport table gives them. The distance it returns and the emissions  *)
(* are binary64 numbers, in kilometres and kilograms.                       *)

Scale == 1000000

\* the square root of Scale, the base the factors of a product are split in
Base == 1000

\* degrees are integers of 1/DegScale degree
DegScale == 10000

Abs(x) == IF x < 0 THEN -x ELSE x

Sign(x) == IF x < 0 THEN -1 ELSE 1

\* a * b \div d for a, b >= 0 and 0 < d, without an intermediate beyond 32 bits
\* as long as d * b is within them
MulDivNat(a, b, d) == (a \div d) * b + ((a % d) * b) \div d

\* the product x * y of two fixed-point numbers
Mul(x, y) ==
    LET a == Abs(x)
        b == Abs(y)
        a1 == a \div Base
        a0 == a % Base
        b1 == b \div Base
        b0 == b % Base
    IN  Sign(x) * Sign(y) * (a1 * b1 + (a1 * b0 + a0 * b1) \div Base + (a0 * b0) \div Scale)

\* the digits-digit decimal fraction r / b for 0 <= r < b
RECURSIVE FracDigits(_, _, _)
FracDigits(r, b, digits) ==
    IF digits = 0 THEN 0
    ELSE LET q == (r * 10) \div b
             rest == FracDigits((r * 10) % b, b, digits - 1)
             pow == CHOOSE p \in {1, 10, 100, 1000, 10000, 100000} :
                       \E k \in 0..5 : k = digits - 1 /\ p = 10 ^ k
         IN  q * pow + rest

\* the quotient x / y of two fixed-point numbers, y # 0
Div(x, y) ==
    LET a == Abs(x)
        b == Abs(y)
    IN  Sign(x) * Sign(y) * ((a \div b) * Scale + FracDigits(a % b, b, 6))

\* Math.PI / 180, times Scale
PiOver180 == 17453

\* Math.PI, times Scale
Pi == 3141593

\* deg * (Math.PI / 180)
deg2rad(deg) == Sign(deg) * MulDivNat(Abs(deg), PiOver180, DegScale)

\* the terms of the sine and cosine series that are summed
SeriesTerms == 12

\* term - term * x^2 / (n (n + 1)) + ..., the series of sine (n = 2) and cosine (n = 1)
RECURSIVE Series(_, _, _, _)
Series(term, x2, n, left) ==
    IF left = 0 \/ term = 0 THEN 0
    ELSE term + Series(-(Mul(term, x2) \div (n * (n + 1))), x2, n + 2, left - 1)

\* Math.sin
Sin(x) == Sign(x) * Series(Abs(x), Mul(x, x), 2, SeriesTerms)

\* Math.cos
Cos(x) == Series(Scale, Mul(x, x), 1, SeriesTerms)

\* r * r <= a * Scale, for 0 <= r <= Scale, exactly
SquareAtMost(r, a) ==
    LET r1 == r \div Base
        r0 == r % Base
        low == 2 * r1 * r0 * Base + r0 * r0
        q == r1 * r1 + low \div Scale
    IN  q < a \/ (q = a /\ low % Scale = 0)

\* Math.sqrt for 0 <= a <= 1: the largest r with r * r <= a, by bisection
RECURSIVE SqrtBetween(_, _, _)
SqrtBetween(a, lo, hi) ==
    IF hi - lo <= 1 THEN lo
    ELSE LET mid == (lo + hi) \div 2
         IN  IF SquareAtMost(mid, a)
             THEN SqrtBetween(a, mid, hi)
             ELSE SqrtBetween(a, lo, mid)

Sqrt(a) == IF a >= Scale THEN Scale ELSE SqrtBetween(a, 0, Scale)

\* t - t^3/3 + t^5/5 - ..., for 0 <= t <= tan(pi/8)
RECURSIVE AtanSeries(_, _, _, _)
AtanSeries(power, t2, n, left) ==
    IF left = 0 \/ power = 0 THEN 0
    ELSE power \div n - AtanSeries(Mul(power, t2), t2, n + 2, left - 1)

\* the arc tangent of 0 <= t <= 1, by atan(t) = 2 atan(t / (1 + sqrt(1 + t^2)))
AtanUnit(t) ==
    LET h == Sqrt(Scale \div 4 + Mul(t, t) \div 4) * 2
        half == Div(t, Scale + h)
    IN  2 * AtanSeries(half, Mul(half, half), 1, SeriesTerms)

\* Math.atan2(y, x) for y >= 0 and x >= 0, not both 0
Atan2(y, x) ==
    IF y <= x THEN AtanUnit(Div(y, x)) ELSE Pi \div 2 - AtanUnit(Div(x, y))

\* the radius of the Earth in kilometres
R == 6371

\* a formula that takes the cosine of the first latitude twice
calculateDistanceOneCosine(lat1, lon1, lat2, lon2) ==
    LET dLat == deg2rad(lat2 - lat1)
        dLon == deg2rad(lon2 - lon1)
        a == Mul(Sin(Sign(dLat) * (Abs(dLat) \div 2)), Sin(Sign(dLat) * (Abs(dLat) \div 2)))
             + Mul(Mul(Mul(Cos(deg2rad(lat1)), Cos(deg2rad(lat1))),
                       Sin(Sign(dLon) * (Abs(dLon) \div 2))),
                   Sin(Sign(dLon) * (Abs(dLon) \div 2)))
        c == 2 * Atan2(Sqrt(a), Sqrt(Scale - a))
    IN  FromRatio(MulDivNat(c, 6371, 1000), 1000)

\* x / 2
Half(x) == Sign(x) * (Abs(x) \div 2)

\* the Haversine formula, worked out to the metre; the distance returned is
\* the number of kilometres nearest to it
calculateDistance(lat1, lon1, lat2, lon2) ==
    LET dLat == deg2rad(lat2 - lat1)
        dLon == deg2rad(lon2 - lon1)
        a == Mul(Sin(Half(dLat)), Sin(Half(dLat)))
             + Mul(Mul(Mul(Cos(deg2rad(lat1)), Cos(deg2rad(lat2))), Sin(Half(dLon))),
                   Sin(Half(dLon)))
        c == 2 * Atan2(Sqrt(a), Sqrt(Scale - a))
    IN  FromRatio(MulDivNat(c, R, Base), Base)

\* EMISSION_FACTOR = 0.115, in kilograms of CO2 per passenger-kilometre
EMISSION_FACTOR == FromRatio(115, 1000)

\* a factor in grams, not kilograms, per kilometre
calculateEmissionsInGrams(dist) == FloatMul(dist, FromRatio(115, 1))

\* distance * EMISSION_FACTOR
calculateEmissions(dist) == FloatMul(dist, EMISSION_FACTOR)

----------------------------------------------------------------------------
(* constants.AIRPORTS, AirportInputForm, App *)

Airport(iata, name, city, country, latitude, longitude) ==
    [ iata |-> iata, name |-> name, city |-> city, country |-> country,
      latitude |-> latitude, longitude |-> longitude ]

KTM ==
    Airport(<<"K", "T", "M">>, <<"T", "r", "i", "b", "h", "u", "v", "a", "n", " ", "I", "n", "t", "e", "r", "n", "a", "t", "i", "o", "n", "a", "l", " ", "A", "i", "r", "p", "o", "r", "t">>,
            <<"K", "a", "t", "h", "m", "a", "n", "d", "u">>, <<"N", "e", "p", "a", "l">>, 276966, 853592)

PKR ==
    Airport(<<"P", "K", "R">>, <<"P", "o", "k", "h", "a", "r", "a", " ", "I", "n", "t", "e", "r", "n", "a", "t", "i", "o", "n", "a", "l", " ", "A", "i", "r", "p", "o", "r", "t">>,
            <<"P", "o", "k", "h", "a", "r", "a">>, <<"N", "e", "p", "a", "l">>, 281997, 839942)

LHR ==
    Airport(<<"L", "H", "R">>, <<"H", "e", "a", "t", "h", "r", "o", "w", " ", "A", "i", "r", "p", "o", "r", "t">>,
            <<"L", "o", "n", "d", "o", "n">>, <<"U", "n", "i", "t", "e", "d", " ", "K", "i", "n", "g", "d", "o", "m">>, 514700, -4543)

\* the airports of the table the model keeps
AIRPORTS == <<KTM, PKR, LHR>>

Sides == {"from", "to"}

\* the filter callback of handleInputChange
MatchesAirport(airport, newQuery) ==
    \/ includes(toLowerCase(airport.name), toLowerCase(newQuery))
    \/ includes(toLowerCase(airport.city), toLowerCase(newQuery))
    \/ includes(toLowerCase(airport.iata), toLowerCase(newQuery))

\* `${airport.name} (${airport.iata})`
Formatted(airport) == airport.name \o <<" ", "(">> \o airport.iata \o <<")">>

\* onChange of a side: setFromAirport or setToAirport
SetAirport(side, value) ==
    /\ fromAirport' = IF side = "from" THEN value ELSE fromAirport
    /\ toAirport' = IF side = "to" THEN value ELSE toAirport

\* handleInputChange: the text of the input becomes newQuery
InputChange(side, newQuery) ==
    /\ newQuery # inputs[side].query
    /\ IF Len(newQuery) > 0
       THEN /\ inputs' = [ inputs EXCEPT
                             ![side].query = newQuery,
                             ![side].suggestions =
                                 SelectSeq(AIRPORTS, LAMBDA ap : MatchesAirport(ap, newQuery)) ]
            /\ UNCHANGED <<fromAirport, toAirport>>
       ELSE /\ inputs' = [ inputs EXCEPT ![side].query = newQuery,
                                         ![side].suggestions = <<>> ]
            /\ SetAirport(side, NULL)
    /\ UNCHANGED <<distance, emissions, ecoPlan, isGeneratingPlan, error, planCall>>
    /\ UNCHANGED <<normVars, queryVars, liveVars>>

\* handleSelectSuggestion: a click on the i-th suggestion
SelectSuggestion(side, i) ==
    /\ i \in 1..Len(inputs[side].suggestions)
    /\ LET airport == inputs[side].suggestions[i]
       IN  /\ inputs' = [ inputs EXCEPT ![side].query = Formatted(airport),
                                        ![side].suggestions = <<>> ]
           /\ SetAirport(side, Some(airport))
    /\ UNCHANGED <<distance, emissions, ecoPlan, isGeneratingPlan, error, planCall>>
    /\ UNCHANGED <<normVars, queryVars, liveVars>>

ValidationMessage == "Please select both a departure and an arrival airport."

PlanFailedMessage == "Could not generate AI eco-plan. Please try again."

\* a handler without the reset of lines 83 to 86
handleCalculateNoReset ==
    /\ IF fromAirport # NULL /\ toAirport # NULL
       THEN LET dist == calculateDistance(Val(fromAirport).latitude, Val(fromAirport).longitude,
                                          Val(toAirport).latitude, Val(toAirport).longitude)
            IN  /\ distance' = Some(dist)
                /\ emissions' = Some(calculateEmissions(dist))
                /\ UNCHANGED <<error, ecoPlan>>
       ELSE /\ error' = ValidationMessage
            /\ UNCHANGED <<distance, emissions, ecoPlan>>
    /\ UNCHANGED <<inputs, fromAirport, toAirport, isGeneratingPlan, planCall>>
    /\ UNCHANGED <<normVars, queryVars, liveVars>>

\* handleCalculate
handleCalculate ==
    /\ ecoPlan' = <<>>
    /\ IF fromAirport # NULL /\ toAirport # NULL
       THEN LET dist == calculateDistance(Val(fromAirport).latitude, Val(fromAirport).longitude,
                                          Val(toAirport).latitude, Val(toAirport).longitude)
            IN  /\ distance' = Some(dist)
                /\ emissions' = Some(calculateEmissions(dist))
                /\ error' = ""
       ELSE /\ distance' = NULL
            /\ emissions' = NULL
            /\ error' = ValidationMessage
    /\ UNCHANGED <<inputs, fromAirport, toAirport, isGeneratingPlan, planCall>>
    /\ UNCHANGED <<normVars, queryVars, liveVars>>

\* !x for a number | null
Falsy(n) == n = NULL \/ Val(n) = Zero

\* generateEcoPlan(fromAirport, toAirport, distance, emissions), not called
NoPlanCall ==
    [ status |-> "none", from |-> NULL, to |-> NULL, distance |-> NULL, emissions |-> NULL ]

\* the text the service writes for a route
PlanText(from, to) == <<"p", "l", "a", "n", " ">> \o Val(from).iata \o <<" ">> \o Val(to).iata

\* a click on 'Get AI Eco-Plan': the button is shown with a result whose
\* emissions are not 0, and is disabled while a plan is generated;
\* handleGeneratePlan up to its await
handleGeneratePlan ==
    /\ emissions # NULL
    /\ ~Falsy(emissions)
    /\ ~isGeneratingPlan
    /\ ~(fromAirport = NULL \/ toAirport = NULL \/ Falsy(distance) \/ Falsy(emissions))
    /\ isGeneratingPlan' = TRUE
    /\ error' = ""
    /\ ecoPlan' = <<>>
    /\ planCall' = [ status |-> "pending", from |-> fromAirport, to |-> toAirport,
                     distance |-> distance, emissions |-> emissions ]
    /\ UNCHANGED <<inputs, fromAirport, toAirport, distance, emissions>>
    /\ UNCHANGED <<normVars, queryVars, liveVars>>

\* a handler that asks the service again when the call failed
PlanSettlesRetrying(ok) ==
    /\ planCall.status = "pending"
    /\ IF ok
       THEN /\ ecoPlan' = PlanText(planCall.from, planCall.to)
            /\ isGeneratingPlan' = FALSE
            /\ planCall' = NoPlanCall
            /\ UNCHANGED error
       ELSE /\ error' = PlanFailedMessage
            /\ UNCHANGED <<ecoPlan, isGeneratingPlan, planCall>>
    /\ UNCHANGED <<inputs, fromAirport, toAirport, distance, emissions>>
    /\ UNCHANGED <<normVars, queryVars, liveVars>>

\* generateEcoPlan settles and handleGeneratePlan runs on: the plan or the
\* error message, and finally setIsGeneratingPlan(false)
PlanSettles(ok) ==
    /\ planCall.status = "pending"
    /\ IF ok
       THEN /\ ecoPlan' = PlanText(planCall.from, planCall.to)
            /\ UNCHANGED error
       ELSE /\ error' = PlanFailedMessage
            /\ UNCHANGED ecoPlan
    /\ isGeneratingPlan' = FALSE
    /\ planCall' = NoPlanCall
    /\ UNCHANGED <<inputs, fromAirport, toAirport, distance, emissions>>
    /\ UNCHANGED <<normVars, queryVars, liveVars>>

\* the state of App and of its two inputs after the first render
AppIdle ==
    /\ inputs = [side \in Sides |-> [query |-> <<>>, suggestions |-> <<>>]]
    /\ fromAirport = NULL
    /\ toAirport = NULL
    /\ distance = NULL
    /\ emissions = NULL
    /\ ecoPlan = <<>>
    /\ isGeneratingPlan = FALSE
    /\ error = ""
    /\ planCall = NoPlanCall

\* what the user types into an input, the empty text included
TypedTexts == { <<>>, <<"k">>, <<"L", "H", "R">> }

AppInit ==
    /\ NormIdle
    /\ engine = "V8"
    /\ QueryIdle
    /\ LiveIdle
    /\ AppIdle

AppNext ==
    \/ \E side \in Sides, text \in TypedTexts : InputChange(side, text)
    \/ \E side \in Sides, i \in 1..Len(AIRPORTS) : SelectSuggestion(side, i)
    \/ handleCalculate
    \/ handleGeneratePlan
    \/ \E ok \in BOOLEAN : PlanSettles(ok)

SpecApp == AppInit /\ [][AppNext]_vars

----------------------------------------------------------------------------
(* Inputs of calculateDistance *)

\* a step of latitude and a step of longitude, in 1/DegScale degree
LatStep == 214700

LonStep == 413592

\* a place the two coordinates of which are handed to calculateDistance
Place(latitude, longitude) == Airport(<<>>, <<>>, <<>>, <<>>, latitude, longitude)

Places ==
    { Place(i * LatStep, j * LonStep) : i \in (-GridSteps)..GridSteps, j \in (-GridSteps)..GridSteps }

DistanceInit ==
    /\ NormIdle
    /\ engine = "V8"
    /\ QueryIdle
    /\ LiveIdle
    /\ inputs = [side \in Sides |-> [query |-> <<>>, suggestions |-> <<>>]]
    /\ fromAirport \in { Some(place) : place \in Places }
    /\ toAirport \in { Some(place) : place \in Places }
    /\ distance = NULL
    /\ emissions = NULL
    /\ ecoPlan = <<>>
    /\ isGeneratingPlan = FALSE
    /\ error = ""
    /\ planCall = NoPlanCall

SpecDistance == DistanceInit /\ [][handleCalculate]_vars

----------------------------------------------------------------------------
(* Inputs of calculateEmissions *)

\* the distances are the multiples of DistanceStep metres
DistanceStep == 1600

\* the n-th distance, in kilometres
Distance(n) == FromRatio(n * DistanceStep, Base)

EmissionsInit ==
    /\ NormIdle
    /\ engine = "V8"
    /\ QueryIdle
    /\ LiveIdle
    /\ inputs = [side \in Sides |-> [query |-> <<>>, suggestions |-> <<>>]]
    /\ fromAirport = NULL
    /\ toAirport = NULL
    /\ distance \in { Some(Distance(n)) : n \in 0..MaxSamples }
    /\ emissions = NULL
    /\ ecoPlan = <<>>
    /\ isGeneratingPlan = FALSE
    /\ error = ""
    /\ planCall = NoPlanCall

\* const co2 = calculateEmissions(dist); setEmissions(co2)
SetEmissions ==
    /\ emissions = NULL
    /\ emissions' = Some(calculateEmissions(Val(distance)))
    /\ UNCHANGED <<inputs, fromAirport, toAirport, distance, ecoPlan, isGeneratingPlan, error,
                   planCall>>
    /\ UNCHANGED <<normVars, queryVars, liveVars>>

SpecEmissions == EmissionsInit /\ [][SetEmissions]_vars

----------------------------------------------------------------------------
(* The polling loop as a system *)

LiveInit ==
    /\ NormIdle
    /\ engine \in Engines
    /\ QueryIdle
    /\ LiveIdle
    /\ AppIdle

LiveNext ==
    \/ MountEffect
    \/ TimerTick
    \/ RefreshNow
    \/ \E id \in CallIds, resp \in LiveResponses : SettleCall(id, resp)
    \/ Unmount
    \/ \E key \in LiveSortKeys : RequestSort(key)
    \/ \E q \in LiveQueries : SetFilterQuery(q)

SpecLive == LiveInit /\ [][LiveNext]_vars

\* the life of the view, from mount to teardown, without the user's filter
\* and sort
TeardownNext ==
    \/ MountEffect
    \/ TimerTick
    \/ RefreshNow
    \/ \E id \in CallIds, resp \in LiveResponses : SettleCall(id, resp)
    \/ Unmount

\* a request the transport holds is answered, with a body or with a failure,
\* and the event loop then runs the continuation of the await
TransportFair ==
    \A id \in CallIds : WF_vars(\E resp \in LiveResponses : SettleCall(id, resp))

\* no sort key is ever set here, so that sort is never called
TeardownInit ==
    /\ NormIdle
    /\ engine = "V8"
    /\ QueryIdle
    /\ LiveIdle
    /\ AppIdle

SpecTeardown == TeardownInit /\ [][TeardownNext]_vars /\ TransportFair

----------------------------------------------------------------------------
(* Inputs of the normalizer *)

\* raw vectors that differ in which of longitude and latitude are present
PositionVectors ==
    { Vector(<<"a", "1">>, Some(<<"A", "1">>), <<"N", "a">>, lon, lat, Some(100), Some(5), Some(90)) :
        lon \in {NULL, Some(0), Some(85)}, lat \in {NULL, Some(27)} }

\* raw vectors with a position that differ in the callsign
CallsignVectors ==
    { Vector(<<"b", "2">>, cs, <<"I", "n">>, Some(84), Some(28), NULL, NULL, NULL) :
        cs \in { NULL, Some(<<>>), Some(<<" ">>), Some(<<" ", "\t">>),
                 Some(<<" ", "A", " ", "b", "\t">>), Some(<<"A", "b">>),
                 Some(<<"N", "/", "A", " ">>) } }

RawVectors == PositionVectors \cup CallsignVectors

RECURSIVE SeqsUpTo(_, _)
SeqsUpTo(S, n) ==
    IF n = 0 THEN {<<>>}
    ELSE LET shorter == SeqsUpTo(S, n - 1)
         IN  shorter \cup { Append(s, x) : s \in {t \in shorter : Len(t) = n - 1}, x \in S }

Responses ==
    { Response(k, <<>>) : k \in ResponseKinds \ {"ok"} }
    \cup { Response("ok", s) : s \in SeqsUpTo(RawVectors, MaxVectors) }

NormInit ==
    /\ NormIdle
    /\ engine = "V8"
    /\ QueryIdle
    /\ LiveIdle
    /\ AppIdle

\* the transport answers the request of line 23
TransportAnswers ==
    /\ response = NoResponse
    /\ response' \in Responses
    /\ UNCHANGED <<result, queryVars, liveVars, appVars>>

\* the rest of fetchLiveFlights runs and its promise settles
FetchSettles ==
    /\ response # NoResponse
    /\ result = NoResult
    /\ result' = fetchLiveFlights(response)
    /\ UNCHANGED <<response, queryVars, liveVars, appVars>>

\* the caller issues the next request
NextRequest ==
    /\ result # NoResult
    /\ response' = NoResponse
    /\ result' = NoResult
    /\ UNCHANGED <<queryVars, liveVars, appVars>>

NormNext == TransportAnswers \/ FetchSettles \/ NextRequest

SpecNormalizer == NormInit /\ [][NormNext]_vars

----------------------------------------------------------------------------
(* Inputs of the Query Layer *)

\* the sequences of at most n elements of S, no element twice
RECURSIVE DistinctSeqsUpTo(_, _)
DistinctSeqsUpTo(S, n) ==
    IF n = 0 THEN {<<>>}
    ELSE LET shorter == DistinctSeqsUpTo(S, n - 1)
             longest == { t \in shorter : Len(t) = n - 1 }
         IN  shorter \cup
             UNION { { Append(s, x) : x \in S \ { s[i] : i \in 1..Len(s) } } : s \in longest }

FlightSets == DistinctSeqsUpTo(QueryFlights, MaxFlights)

QueryInit ==
    /\ NormIdle
    /\ LiveIdle
    /\ AppIdle
    /\ engine \in Engines
    /\ flights \in FlightSets
    /\ filterQuery = <<>>
    /\ sortConfig = [key |-> NoKey, direction |-> "ascending"]
    /\ view = processedFlights(flights, filterQuery, sortConfig, engine).view

QueryNext ==
    \/ \E key \in SortableKeys : RequestSort(key)
    \/ \E q \in Queries : SetFilterQuery(q)

SpecQuery == QueryInit /\ [][QueryNext]_vars

----------------------------------------------------------------------------
(* Claims about the normalizer, checked under SpecNormalizer *)

\* the call has settled for a response that carried a `states` array
Normalized == response.kind = "ok" /\ result # NoResult

\* the positions of the raw vectors that have both a longitude and a latitude
Positioned(raw) == { i \in 1..Len(raw) : raw[i][5] # NULL /\ raw[i][6] # NULL }

\* the position in raw of the k-th vector that has both
KthPositioned(raw, k) ==
    CHOOSE i \in Positioned(raw) : Cardinality({ j \in Positioned(raw) : j <= i }) = k

\* C1: the FlightSet of a successful response is the subsequence of the raw
\* vectors with a non-null longitude and a non-null latitude, in source order:
\* one FlightState per such vector and none for the others, so the length
\* drops by one per vector lacking position and every FlightState has both.
C1_PositionedSubsequence ==
    Normalized =>
        LET raw == response.states
            out == result.value
        IN  /\ Len(out) = Cardinality(Positioned(raw))
            /\ Len(out) = Len(raw) - Cardinality((1..Len(raw)) \ Positioned(raw))
            /\ \A k \in 1..Len(out) :
                  LET st == raw[KthPositioned(raw, k)]
                  IN  /\ out[k].icao24 = st[0]
                      /\ out[k].origin_country = st[2]
                      /\ out[k].longitude = st[5]
                      /\ out[k].latitude = st[6]
                      /\ out[k].baro_altitude = st[7]
                      /\ out[k].velocity = st[9]
                      /\ out[k].true_track = st[10]
                      /\ out[k].longitude # NULL
                      /\ out[k].latitude # NULL

\* a vector without latitude between two vectors with a position was dropped
C1_Witness ==
    /\ Normalized
    /\ Len(response.states) = 3
    /\ Positioned(response.states) = {1, 3}
    /\ response.states[2][5] # NULL
    /\ response.states[1][5] # response.states[3][5]
    /\ Len(result.value) = 2

\* C2: when the transport call fails (network error, non-success status, a
\* body that cannot be decoded into a states collection) the promise of
\* fetchLiveFlights resolves to the empty FlightSet and never rejects; a
\* response without a states field resolves to the empty FlightSet too.
C2_FailSoft ==
    result # NoResult =>
        /\ result.settled = "resolved"
        /\ response.kind \in FailureKinds \cup {"states_absent"} => result.value = <<>>

C2_Witness ==
    /\ response.kind = "http_error"
    /\ result.settled = "resolved"
    /\ result.value = <<>>

\* a source callsign that is absent, empty or all whitespace
Blank(raw) == raw = NULL \/ \A j \in 1..Len(Val(raw)) : Val(raw)[j] \in WhiteSpace

\* t is s without its leading and trailing whitespace
IsTrimOf(t, s) ==
    /\ t # <<>>
    /\ t[1] \notin WhiteSpace
    /\ t[Len(t)] \notin WhiteSpace
    /\ \E a \in 0..Len(s) :
          /\ a + Len(t) <= Len(s)
          /\ SubSeq(s, a + 1, a + Len(t)) = t
          /\ \A j \in (1..a) \cup ((a + Len(t) + 1)..Len(s)) : s[j] \in WhiteSpace

\* C9: the callsign of every FlightState is the source callsign without its
\* leading and trailing whitespace; the placeholder 'N/A' stands in exactly
\* when the source callsign is absent, empty or all whitespace; no produced
\* callsign is empty.
C9_CallsignTrimmedOrPlaceholder ==
    Normalized =>
        \A k \in 1..Len(result.value) :
            LET src == response.states[KthPositioned(response.states, k)][1]
                cs  == result.value[k].callsign
            IN  /\ cs # <<>>
                /\ Blank(src) => cs = NA
                /\ ~Blank(src) => IsTrimOf(cs, Val(src))

\* one callsign lost whitespace at both ends and a blank one became 'N/A'
C9_Witness ==
    /\ Normalized
    /\ Len(response.states) = 2
    /\ response.states[1][1] = Some(<<" ", "A", " ", "b", "\t">>)
    /\ response.states[2][1] = Some(<<" ", "\t">>)
    /\ Len(result.value) = 2
    /\ result.value[1].callsign = <<"A", " ", "b">>
    /\ result.value[2].callsign = NA

----------------------------------------------------------------------------
(* Claims about the Query Layer, checked under SpecQuery *)

\* C3: for every sort key and both directions, every record whose sort-key
\* value is null stands after every record whose sort-key value is non-null.
C3_NullsLast ==
    sortConfig.key # NoKey =>
        \A i, j \in 1..Len(view) :
            (i < j /\ IsNullKey(view[i], sortConfig.key)) => IsNullKey(view[j], sortConfig.key)

\* sorted by velocity, descending: two null velocities, which did not come
\* last in the FlightSet, stand after two non-null ones
C3_Witness ==
    /\ sortConfig = [key |-> "velocity", direction |-> "descending"]
    /\ Len(view) = 4
    /\ flights[1].velocity = NULL
    /\ flights[3].velocity = NULL
    /\ view[1].velocity # NULL
    /\ view[2].velocity # NULL
    /\ view[3].velocity = NULL
    /\ view[4].velocity = NULL

\* C4: applying the filter-and-sort to its own output with the same filter
\* string and sort configuration yields the same sequence again.
C4_Idempotent ==
    processedFlights(view, filterQuery, sortConfig, engine).view = view

\* q occurs in s at some position
OccursIn(q, s) ==
    \E a \in 0..Len(s) : a + Len(q) <= Len(s) /\ SubSeq(s, a + 1, a + Len(q)) = q

\* the record is one the filter string selects
Selected(flight) ==
    \/ filterQuery = <<>>
    \/ OccursIn(toLowerCase(filterQuery), toLowerCase(flight.callsign))
    \/ OccursIn(toLowerCase(filterQuery), toLowerCase(flight.origin_country))

SelectedIdx == { i \in 1..Len(flights) : Selected(flights[i]) }

\* the position in flights of the k-th selected record
KthSelected(k) ==
    CHOOSE i \in SelectedIdx : Cardinality({ j \in SelectedIdx : j <= i }) = k

\* C8: a record is in the view iff the filter string is empty or its lower
\* case occurs in the lower-cased callsign or origin country; with no sort
\* key the retained records keep their FlightSet order.
C8_FilterSemantics ==
    /\ Len(view) = Cardinality(SelectedIdx)
    /\ { view[k] : k \in 1..Len(view) } = { flights[i] : i \in SelectedIdx }
    /\ sortConfig.key = NoKey =>
          \A k \in 1..Len(view) : view[k] = flights[KthSelected(k)]

\* an upper-case filter keeps the first and third of four records, which
\* match in lower case only, one by callsign and one by country
C8_Witness ==
    /\ filterQuery = <<"A", "B">>
    /\ sortConfig.key = NoKey
    /\ Len(flights) = 4
    /\ SelectedIdx = {1, 3}
    /\ view = <<flights[1], flights[3]>>
    /\ ~OccursIn(filterQuery, flights[1].callsign)

----------------------------------------------------------------------------
(* Claims about the polling loop, checked under SpecLive *)

\* the call that settled last
LastSettled == CHOOSE id \in Settled : calls[id].settleSeq = Cardinality(Settled)

\* C5: once the calls in flight have settled, the FlightSet is the normalized
\* result of the call that settled last, whichever was issued first, and
\* never a mixture of two results.
C5_LastSettledWins ==
    (mounted /\ Settled # {}) =>
        flights = fetchLiveFlights(calls[LastSettled].response).value

\* calls 1 and 2 were pending together, 2 settled first and 1 last, with
\* different results, and the FlightSet is the result of call 1
C5_Witness ==
    /\ mounted
    /\ Settled = {1, 2}
    /\ 2 \in calls[1].beside
    /\ calls[2].settleSeq = 1
    /\ calls[1].settleSeq = 2
    /\ fetchLiveFlights(calls[1].response).value # fetchLiveFlights(calls[2].response).value
    /\ fetchLiveFlights(calls[2].response).value # <<>>
    /\ flights = fetchLiveFlights(calls[1].response).value
    /\ flights # <<>>

\* C6: the FlightSet is the only state variable that two operations pending
\* at the same time both write.
C6_OnlyFlightSetShared ==
    \A i, j \in CallIds :
        (i # j /\ j \in calls[i].beside) =>
            (calls[i].wrote \cap calls[j].wrote) \subseteq {"flights"}

\* C10: deriving the view after a change of the filter string or of the sort
\* configuration leaves the FlightSet, its records and their order, as it was.
C10_ViewLeavesFlightSet ==
    [][(filterQuery' # filterQuery \/ sortConfig' # sortConfig) => flights' = flights]_vars

\* the whole FlightSet of the last poll is shown sorted, in another order than
\* the FlightSet has
C10_Witness ==
    /\ mounted
    /\ Settled # {}
    /\ filterQuery = <<>>
    /\ sortConfig.key = "velocity"
    /\ Len(flights) = 3
    /\ Len(view) = 3
    /\ view # flights
    /\ flights = fetchLiveFlights(calls[LastSettled].response).value

----------------------------------------------------------------------------
(* Claims about App, checked under SpecApp *)

\* C7: in every reachable state, if the origin or the destination airport is
\* unset then no RouteCalculation is present: distance and emissions are
\* both absent.
C7_NoRouteWithoutAirports ==
    (fromAirport = NULL \/ toAirport = NULL) => (distance = NULL /\ emissions = NULL)


----------------------------------------------------------------------------
(* Claims about the teardown of the view, checked under SpecTeardown *)

\* a call that settled after the teardown: its continuation set nothing
SettledAfterTeardown(id) ==
    /\ id \in Settled
    /\ "flights" \notin calls[id].wrote

\* C11: once the view is torn down no further fetch is started, by the timer
\* or otherwise, while a fetch in flight at the teardown is not cancelled: it
\* stays pending until it settles, and it does settle.
C11_TimerStopsFetchSettles ==
    /\ [][~mounted => \A id \in CallIds :
                         /\ calls[id].status = "unused" => calls'[id].status = "unused"
                         /\ calls[id].status = "pending" =>
                                calls'[id].status \in {"pending", "settled"}]_vars
    /\ \A id \in CallIds :
           (~mounted /\ calls[id].status = "pending") ~> (calls[id].status = "settled")

\* the view is torn down, its timer is cleared, a call that was in flight at
\* the teardown has settled, and calls the timer never started remain
C11_Witness ==
    /\ ~mounted
    /\ timer = "cleared"
    /\ \E id \in CallIds : SettledAfterTeardown(id)
    /\ Pending = {}
    /\ \E id \in CallIds : calls[id].status = "unused"


----------------------------------------------------------------------------
(* Claims about the eco-plan and the calculation, checked under SpecApp *)

\* C12: a failed eco-plan call sets the error message and ends the
\* generating state, and while that message stands no eco-plan text is shown
\* and no request is in flight: the next request is the user's, which clears
\* the message.
C12_PlanFailureSurfaced ==
    /\ [](error = PlanFailedMessage =>
             /\ ecoPlan = <<>>
             /\ ~isGeneratingPlan
             /\ planCall.status = "none")
    /\ [][(planCall.status = "pending" /\ planCall'.status # "pending") =>
             /\ ~isGeneratingPlan'
             /\ \/ ecoPlan' # <<>> /\ error' = error
                \/ ecoPlan' = <<>> /\ error' = PlanFailedMessage]_vars

\* the call for a calculated route failed: the result is still shown, with the
\* message and without a plan
C12_Witness ==
    /\ error = PlanFailedMessage
    /\ ~Falsy(emissions)
    /\ ecoPlan = <<>>
    /\ ~isGeneratingPlan
    /\ planCall = NoPlanCall


\* C13: a calculation requested with the origin or the destination unset
\* computes nothing, clears the distance, the emissions and the eco-plan of
\* an earlier calculation and sets the validation message; while that
\* message stands there is no distance and no emissions.
C13_IncompleteInputRejected ==
    /\ [](error = ValidationMessage => distance = NULL /\ emissions = NULL)
    /\ [][((fromAirport = NULL \/ toAirport = NULL) /\ handleCalculate) =>
             /\ distance' = NULL
             /\ emissions' = NULL
             /\ ecoPlan' = <<>>
             /\ error' = ValidationMessage]_vars

\* the origin was emptied, the destination is still selected, and the
\* calculation was refused
C13_Witness ==
    /\ error = ValidationMessage
    /\ fromAirport = NULL
    /\ inputs["from"].query = <<>>
    /\ toAirport # NULL
    /\ distance = NULL
    /\ emissions = NULL
    /\ ecoPlan = <<>>


----------------------------------------------------------------------------
(* Claims about requestSort, checked under SpecQuery *)

Opposite(direction) == IF direction = "ascending" THEN "descending" ELSE "ascending"

\* C14: a sort request on the current sort key flips the direction, and a
\* request on another key, or with no key set, sets that key ascending,
\* whatever requests came before.
C14_SortToggle ==
    [][\A key \in SortableKeys :
          RequestSort(key) =>
              /\ sortConfig'.key = key
              /\ sortConfig'.direction =
                     IF sortConfig.key = key
                     THEN Opposite(sortConfig.direction)
                     ELSE "ascending"]_vars

\* two requests on velocity: several records are shown, sorted descending
C14_Witness ==
    /\ sortConfig = [key |-> "velocity", direction |-> "descending"]
    /\ Len(view) >= 2


----------------------------------------------------------------------------
(* Claims about the calculator *)

\* C15: the distance from A to B is the distance from B to A, for all
\* coordinate pairs A and B.
C15_DistanceSymmetric ==
    distance # NULL =>
        Val(distance) = calculateDistance(Val(toAirport).latitude, Val(toAirport).longitude,
                                          Val(fromAirport).latitude, Val(fromAirport).longitude)

\* a distance was calculated between two places on different hemispheres,
\* north and south, east and west
C15_Witness ==
    /\ distance # NULL
    /\ Val(distance) # Zero
    /\ Val(fromAirport).latitude > 0
    /\ Val(toAirport).latitude < 0
    /\ Val(fromAirport).longitude < 0
    /\ Val(toAirport).longitude > 0


\* C16: the emissions of a distance d are d * 0.115 as numbers multiply, so
\* that the emissions of 0 km are 0, the emissions of 2d are twice the
\* emissions of d, and the emissions of 1000 km are 115.0 kg.
C16_EmissionsLinear ==
    emissions # NULL =>
        LET d == Val(distance)
            two == FromRatio(2, 1)
        IN  /\ d = Zero => Val(emissions) = Zero
            /\ calculateEmissions(FloatMul(two, d)) = FloatMul(two, Val(emissions))
            /\ d = FromRatio(1000, 1) => Val(emissions) = FromRatio(115, 1)

\* the emissions of 1000 km were worked out
C16_Witness ==
    /\ distance = Some(FromRatio(1000, 1))
    /\ emissions = Some(FromRatio(115, 1))


\* C17: an eco-plan that comes to be displayed with a calculation was
\* generated for that calculation, never for an earlier one, and a
\* calculation request clears the eco-plan of the calculation before.
C17_PlanOfDisplayedCalculation ==
    [][/\ (ecoPlan' # ecoPlan /\ ecoPlan' # <<>> /\ emissions' # NULL) =>
              /\ planCall.status = "pending"
              /\ planCall.distance = distance'
              /\ planCall.emissions = emissions'
       /\ (distance' # distance \/ emissions' # emissions) => ecoPlan' = <<>>]_vars

====
